---- MODULE Spec2Model ----
(***************************************************************************)
(* Model of md_docs' tools/repair.py: discovery of broken relative links   *)
(* (find_broken_urls), their classification against the corpus index      *)
(* (classify_broken_urls), the line rewrite (write_corrected_url) and the  *)
(* `docs repair links` command (links).                                    *)
(*                                                                         *)
(* A string is a sequence of one-character strings, a path is a sequence   *)
(* of components (each a string), a document is an index into md_files.    *)
(***************************************************************************)
EXTENDS Integers, Sequences, FiniteSets, TLC

VARIABLES
    md_files,   \* config["md_files"]: the documents' paths, in discovery order
    disk,       \* disk[d]: the lines of document d's file on the file system
    disk0,      \* disk at the start of the current run of the command
    contents,   \* contents[d]: md.contents, the in-memory line list of d
    dry_run,    \* config["dry_run"]
    results,    \* links: the four buckets, each a list of <<md, entries>>
    pc,         \* position in links / write_corrected_url
    idx,        \* links: index of the `for md in config["md_files"]` loop
    item,       \* links: index of the `for item in results[k]` loop
    entry,      \* write_corrected_url: index of the `for defect, matches` loop
    wline,      \* write_corrected_url: index of the `for line in md.contents` loop
    opens,      \* opens[d]: how often d's file was opened for writing this run
    passed,     \* the (md, problems) arguments given to write_corrected_url
    log,        \* the log.info records that matter, in order
    run         \* which run of the command this is

vars == <<md_files, disk, disk0, contents, dry_run, results, pc, idx, item,
          entry, wline, opens, passed, log, run>>

----------------------------------------------------------------------------
(* Bounds of the model *)

\* lines per linking document
MaxLines == 2

\* runs of the command in a row
MaxRuns == 2

----------------------------------------------------------------------------
(* Strings: str.replace *)

StartsAt(s, sub, i) ==
    /\ i + Len(sub) - 1 <= Len(s)
    /\ SubSeq(s, i, i + Len(sub) - 1) = sub

RECURSIVE ReplaceFrom(_, _, _, _)
ReplaceFrom(s, old, new, i) ==
    IF i > Len(s) THEN <<>>
    ELSE IF StartsAt(s, old, i)
         THEN new \o ReplaceFrom(s, old, new, i + Len(old))
         ELSE <<s[i]>> \o ReplaceFrom(s, old, new, i + 1)

RECURSIVE Interleave(_, _, _)
Interleave(s, new, i) ==
    IF i > Len(s) THEN new
    ELSE new \o <<s[i]>> \o Interleave(s, new, i + 1)

\* Python's s.replace(old, new): every non-overlapping occurrence, left to right
str_replace(s, old, new) ==
    IF old = <<>> THEN Interleave(s, new, 1) ELSE ReplaceFrom(s, old, new, 1)

\* index of the first c in s at or after i, or 0
RECURSIVE IndexOf(_, _, _)
IndexOf(s, c, i) ==
    IF i > Len(s) THEN 0
    ELSE IF s[i] = c THEN i ELSE IndexOf(s, c, i + 1)

----------------------------------------------------------------------------
(* Paths: pathlib.Path *)

RECURSIVE Split(_, _)
Split(s, sep) ==
    LET p == IndexOf(s, sep, 1)
    IN  IF p = 0 THEN <<s>>
        ELSE <<SubSeq(s, 1, p - 1)>> \o Split(SubSeq(s, p + 1, Len(s)), sep)

\* Path(s): the components of a relative path string; empty and "."
\* components are dropped, ".." is kept
PathParts(s) ==
    SelectSeq(Split(s, "/"), LAMBDA c : c # <<>> /\ c # <<".">>)

\* Path.name
PathName(parts) == IF parts = <<>> THEN <<>> ELSE parts[Len(parts)]

\* Path.parent
PathParent(parts) ==
    IF parts = <<>> THEN <<>> ELSE SubSeq(parts, 1, Len(parts) - 1)

RECURSIVE JoinStr(_)
JoinStr(parts) ==
    IF Len(parts) = 1 THEN parts[1]
    ELSE parts[1] \o <<"/">> \o JoinStr(Tail(parts))

\* str(Path)
PathStr(parts) == IF parts = <<>> THEN <<".">> ELSE JoinStr(parts)

\* Path.resolve() below the documents' root, no symbolic links: ".." pops
RECURSIVE ResolveFrom(_, _)
ResolveFrom(done, parts) ==
    IF parts = <<>> THEN done
    ELSE IF Head(parts) = <<".", ".">>
         THEN ResolveFrom(PathParent(done), Tail(parts))
         ELSE ResolveFrom(Append(done, Head(parts)), Tail(parts))

Resolve(parts) == ResolveFrom(<<>>, parts)

IsPrefix(p, q) == Len(p) <= Len(q) /\ SubSeq(q, 1, Len(p)) = p

\* Path.exists(): a file of the corpus, or a directory that holds one
Exists(p, files) == \E f \in 1..Len(files) : IsPrefix(p, files[f])

RECURSIVE CommonLen(_, _)
CommonLen(p, q) ==
    IF p = <<>> \/ q = <<>> \/ Head(p) # Head(q) THEN 0
    ELSE 1 + CommonLen(Tail(p), Tail(q))

\* md_docs.common.relative_path(left, right): the path from directory left
\* to directory right
relative_path(left, right) ==
    LET c == CommonLen(left, right)
    IN  [i \in 1..(Len(left) - c) |-> <<".", ".">>]
            \o SubSeq(right, c + 1, Len(right))

----------------------------------------------------------------------------
(* MarkdownDocument.relative_links: the [text](link) occurrences of a line *)

\* index of the first "](" in s at or after i, or 0
RECURSIVE IndexOfClose(_, _)
IndexOfClose(s, i) ==
    IF i + 1 > Len(s) THEN 0
    ELSE IF s[i] = "]" /\ s[i + 1] = "(" THEN i ELSE IndexOfClose(s, i + 1)

\* the url dict of one match: 'full', 'text', 'link', 'md', 'md_span', 'section'
LinkRecord(s, i, j, k) ==
    LET link == SubSeq(s, j + 2, k - 1)
        h    == IndexOf(link, "#", 1)
        path == IF h = 0 THEN link ELSE SubSeq(link, 1, h - 1)
    IN  [ full    |-> SubSeq(s, i, k),
          text    |-> SubSeq(s, i + 1, j - 1),
          link    |-> link,
          md      |-> path,
          md_span |-> <<j + 1, j + 1 + Len(path)>>,
          section |-> IF h = 0 THEN <<>> ELSE SubSeq(link, h + 1, Len(link)) ]

\* the matches of \[(.*?)\]\((.*?)\) in s from position from on, left to right
RECURSIVE FindLinks(_, _)
FindLinks(s, from) ==
    LET i == IndexOf(s, "[", from)
        j == IF i = 0 THEN 0 ELSE IndexOfClose(s, i + 1)
        k == IF j = 0 THEN 0 ELSE IndexOf(s, ")", j + 2)
    IN  IF k = 0 THEN <<>>
        ELSE <<LinkRecord(s, i, j, k)>> \o FindLinks(s, k + 1)

\* the <<line number (0 based), url>> pairs of line number n
LineLinks(s, n) ==
    LET found == SelectSeq(FindLinks(s, 1), LAMBDA u : u.md # <<>>)
    IN  [q \in 1..Len(found) |-> <<n, found[q]>>]

RECURSIVE LinksFrom(_, _)
LinksFrom(lines, n) ==
    IF n > Len(lines) THEN <<>>
    ELSE LineLinks(lines[n], n - 1) \o LinksFrom(lines, n + 1)

\* md.relative_links()
relative_links(lines) == LinksFrom(lines, 1)

----------------------------------------------------------------------------
(* find_broken_urls *)

\* md.filename.parent.joinpath(rurl[1]["md"]).resolve()
LinkedFile(filename, target) ==
    Resolve(PathParent(filename) \o PathParts(target))

IsBroken(filename, rurl, files) ==
    ~Exists(LinkedFile(filename, rurl[2].md), files)

find_broken_urls(filename, lines, files) ==
    SelectSeq(relative_links(lines), LAMBDA rurl : IsBroken(filename, rurl, files))

----------------------------------------------------------------------------
(* difflib.get_close_matches *)

\* the characters of file names, in code point order
CharOrder == <<".", "a", "b", "c", "d", "m", "p", "q", "r", "x", "y", "z">>

Code(c) == CHOOSE i \in 1..Len(CharOrder) : CharOrder[i] = c

\* string comparison a > b
RECURSIVE StrGreater(_, _)
StrGreater(a, b) ==
    IF a = <<>> THEN FALSE
    ELSE IF b = <<>> THEN TRUE
    ELSE IF Head(a) # Head(b) THEN Code(Head(a)) > Code(Head(b))
    ELSE StrGreater(Tail(a), Tail(b))

\* whether a block of length k starts at a[i] and b[j]
BlockAt(a, b, i, j, k) ==
    /\ i + k - 1 <= Len(a)
    /\ j + k - 1 <= Len(b)
    /\ SubSeq(a, i, i + k - 1) = SubSeq(b, j, j + k - 1)

\* SequenceMatcher.find_longest_match on the whole of a and b: <<i, j, k>>,
\* the longest block, the earliest in a, then the earliest in b
find_longest_match(a, b) ==
    LET ks == {k \in 1..Len(a) :
                  \E i \in 1..Len(a), j \in 1..Len(b) : BlockAt(a, b, i, j, k)}
    IN  IF ks = {} THEN <<1, 1, 0>>
        ELSE LET k == CHOOSE x \in ks : \A y \in ks : x >= y
                 is == {i \in 1..Len(a) :
                           \E j \in 1..Len(b) : BlockAt(a, b, i, j, k)}
                 i  == CHOOSE x \in is : \A y \in is : x <= y
                 js == {j \in 1..Len(b) : BlockAt(a, b, i, j, k)}
                 j  == CHOOSE x \in js : \A y \in js : x <= y
             IN  <<i, j, k>>

\* the sum of the sizes of SequenceMatcher.get_matching_blocks()
RECURSIVE MatchCount(_, _)
MatchCount(a, b) ==
    LET m == find_longest_match(a, b)
    IN  IF m[3] = 0 THEN 0
        ELSE m[3]
             + MatchCount(SubSeq(a, 1, m[1] - 1), SubSeq(b, 1, m[2] - 1))
             + MatchCount(SubSeq(a, m[1] + m[3], Len(a)),
                          SubSeq(b, m[2] + m[3], Len(b)))

\* SequenceMatcher(a=x, b=word).ratio() >= num/den
RatioAtLeast(x, word, num, den) ==
    2 * MatchCount(x, word) * den >= num * (Len(x) + Len(word))

\* (ratio(x), x) > (ratio(y), y), the order heapq.nlargest sorts by
Better(x, y, word) ==
    LET rx == MatchCount(x, word) * (Len(y) + Len(word))
        ry == MatchCount(y, word) * (Len(x) + Len(word))
    IN  rx > ry \/ (rx = ry /\ StrGreater(x, y))

RECURSIVE Largest(_, _, _)
Largest(S, n, word) ==
    IF S = {} \/ n = 0 THEN <<>>
    ELSE LET best == CHOOSE x \in S : \A y \in S \ {x} : Better(x, y, word)
         IN  <<best>> \o Largest(S \ {best}, n - 1, word)

\* get_close_matches(word, possibilities, n, cutoff = num/den)
get_close_matches(word, possibilities, n, num, den) ==
    Largest({x \in possibilities : RatioAtLeast(x, word, num, den)}, n, word)

----------------------------------------------------------------------------
(* md_docs.document.document_lookup *)

\* file name -> the documents of that name, in discovery order
document_lookup(files) ==
    [name \in {PathName(files[d]) : d \in 1..Len(files)} |->
        SelectSeq([d \in 1..Len(files) |-> d],
                  LAMBDA d : PathName(files[d]) = name)]

----------------------------------------------------------------------------
(* classify_broken_urls *)

\* the default n of get_close_matches
CloseMatchesN == 3

\* cutoff=0.8, as a fraction
CutoffNum == 8
CutoffDen == 10

EmptyResults ==
    [no_matches |-> <<>>, suggestions |-> <<>>,
     exact_match |-> <<>>, exact_matches |-> <<>>]

\* the key without .name: the whole target
url_key_whole(url) == url.md

\* key = Path(url["md"]).name
url_key(url) == PathName(PathParts(url.md))

\* the call without cutoff=0.8: difflib's default cutoff, 0.6
close_matches_default(key, lookup) ==
    get_close_matches(key, DOMAIN lookup, CloseMatchesN, 6, 10)

\* get_close_matches(key, lookup.keys(), cutoff=0.8)
close_matches(key, lookup) ==
    get_close_matches(key, DOMAIN lookup, CloseMatchesN, CutoffNum, CutoffDen)

\* [match for pk in suggestions for match in lookup[pk]]
RECURSIVE Flatten(_, _)
Flatten(keys, lookup) ==
    IF keys = <<>> THEN <<>>
    ELSE lookup[Head(keys)] \o Flatten(Tail(keys), lookup)

\* the iteration with `if` in place of `else` before the exact_matches append:
\* a single match is appended to both buckets
classify_one_no_else(res, lookup, problem) ==
    LET key == url_key(problem[2])
    IN  IF key \in DOMAIN lookup
        THEN LET matches == lookup[key]
                 one == IF Len(matches) = 1
                        THEN [res EXCEPT !.exact_match = Append(@, <<problem, matches>>)]
                        ELSE res
             IN  [one EXCEPT !.exact_matches = Append(@, <<problem, matches>>)]
        ELSE LET suggestions == close_matches(key, lookup)
             IN  IF suggestions # <<>>
                 THEN [res EXCEPT !.suggestions =
                          Append(@, <<problem, Flatten(suggestions, lookup)>>)]
                 ELSE [res EXCEPT !.no_matches = Append(@, <<problem, <<>>>>)]

\* the iteration with `if matches:` in place of `if len(matches) == 1`
classify_one_any(res, lookup, problem) ==
    LET key == url_key(problem[2])
    IN  IF key \in DOMAIN lookup
        THEN LET matches == lookup[key]
             IN  IF Len(matches) >= 1
                 THEN [res EXCEPT !.exact_match = Append(@, <<problem, matches>>)]
                 ELSE [res EXCEPT !.exact_matches = Append(@, <<problem, matches>>)]
        ELSE LET suggestions == close_matches(key, lookup)
             IN  IF suggestions # <<>>
                 THEN [res EXCEPT !.suggestions =
                          Append(@, <<problem, Flatten(suggestions, lookup)>>)]
                 ELSE [res EXCEPT !.no_matches = Append(@, <<problem, <<>>>>)]

\* one iteration of `for problem in broken_urls`
classify_one(res, lookup, problem) ==
    LET key == url_key(problem[2])
    IN  IF key \in DOMAIN lookup
        THEN LET matches == lookup[key]
             IN  IF Len(matches) = 1
                 THEN [res EXCEPT !.exact_match = Append(@, <<problem, matches>>)]
                 ELSE [res EXCEPT !.exact_matches = Append(@, <<problem, matches>>)]
        ELSE LET suggestions == close_matches(key, lookup)
             IN  IF suggestions # <<>>
                 THEN [res EXCEPT !.suggestions =
                          Append(@, <<problem, Flatten(suggestions, lookup)>>)]
                 ELSE [res EXCEPT !.no_matches = Append(@, <<problem, <<>>>>)]

RECURSIVE classify_from(_, _, _)
classify_from(res, lookup, broken_urls) ==
    IF broken_urls = <<>> THEN res
    ELSE classify_from(classify_one(res, lookup, Head(broken_urls)),
                       lookup, Tail(broken_urls))

classify_broken_urls(lookup, broken_urls) ==
    classify_from(EmptyResults, lookup, broken_urls)

----------------------------------------------------------------------------
(* The corpora and lines the runs start from *)

NameMd(stem) == stem \o <<".", "m", "d">>

FileX   == << <<"a">>, NameMd(<<"x">>) >>
FileY   == << <<"a">>, NameMd(<<"y">>) >>
FileCR  == << <<"c">>, NameMd(<<"r">>) >>
FileDR  == << <<"d">>, NameMd(<<"r">>) >>
FileCRP == << <<"c">>, NameMd(<<"r", "p">>) >>

\* search(root): r.md once; r.md twice; r.md and rp.md
Corpora ==
    { <<FileX, FileY, FileCR>>,
      <<FileX, FileY, FileCR, FileDR>>,
      <<FileX, FileY, FileCRP, FileCR>> }

MdLink(text, target) == <<"[">> \o text \o <<"]", "(">> \o target \o <<")">>

Plain == <<"p">>

\* [t](r.md) [u](b/r.md)   [r.md](r.md#s)   [t](rq.md)   [t](zz.md)
\* [t](../c/r.md)          [t](../b/y.md)   p
LinePool ==
    { MdLink(<<"t">>, NameMd(<<"r">>)) \o <<" ">>
          \o MdLink(<<"u">>, <<"b", "/">> \o NameMd(<<"r">>)),
      MdLink(NameMd(<<"r">>), NameMd(<<"r">>) \o <<"#", "s">>),
      MdLink(<<"t">>, NameMd(<<"r", "q">>)),
      MdLink(<<"t">>, NameMd(<<"z", "z">>)),
      MdLink(<<"t">>, <<".", ".", "/", "c", "/">> \o NameMd(<<"r">>)),
      MdLink(<<"t">>, <<".", ".", "/", "b", "/">> \o NameMd(<<"y">>)),
      Plain }

\* the contents a/x.md may start with
XPool == UNION {[1..n -> LinePool] : n \in 1..MaxLines}

\* the contents a/y.md may start with
YPool == { <<Plain>>, <<MdLink(<<"t">>, NameMd(<<"r">>))>> }

Docs == 1..Len(md_files)

\* lookup = document_lookup(config["md_files"])
lookup == document_lookup(md_files)

----------------------------------------------------------------------------
(* The links command *)

BucketKeys == <<"no_matches", "suggestions", "exact_match", "exact_matches">>

\* the messages keys other than "exact_match", in dict order
ReportKeys == <<"no_matches", "suggestions", "exact_matches">>

Init ==
    /\ md_files \in Corpora
    /\ \E x \in XPool, y \in YPool :
          disk = [d \in 1..Len(md_files) |->
                     IF d = 1 THEN x ELSE IF d = 2 THEN y ELSE <<Plain>>]
    /\ disk0 = disk
    /\ contents = disk
    /\ dry_run \in BOOLEAN
    /\ results = EmptyResults
    /\ pc = "classify"
    /\ idx = 1
    /\ item = 1
    /\ entry = 1
    /\ wline = 1
    /\ opens = [d \in 1..Len(md_files) |-> 0]
    /\ passed = <<>>
    /\ log = <<>>
    /\ run = 1

\* for key in results: if sorted_broken_urls[key]: results[key].append(...)
collect(res, md, sorted) ==
    [key \in DOMAIN res |->
        IF sorted[key] # <<>> THEN Append(res[key], <<md, sorted[key]>>)
        ELSE res[key]]

\* one iteration of `for md in config["md_files"]`
ClassifyDoc ==
    /\ pc = "classify"
    /\ idx <= Len(md_files)
    /\ results' = collect(results, idx,
                     classify_broken_urls(lookup,
                         find_broken_urls(md_files[idx], contents[idx], md_files)))
    /\ idx' = idx + 1
    /\ pc' = IF idx = Len(md_files) THEN "report" ELSE "classify"
    /\ UNCHANGED <<md_files, disk, disk0, contents, dry_run, item, entry,
                   wline, opens, passed, log, run>>

\* the headers display_classified_url is called under
Shown(res) ==
    SelectSeq(ReportKeys, LAMBDA key : res[key] # <<>>)

\* for key in (k for k in messages.keys() if k != "exact_match"): display
ReportBuckets ==
    /\ pc = "report"
    /\ log' = log \o [q \in 1..Len(Shown(results)) |->
                         [kind |-> "display", key |-> Shown(results)[q]]]
    /\ pc' = "line400"
    /\ UNCHANGED <<md_files, disk, disk0, contents, dry_run, results, idx,
                   item, entry, wline, opens, passed, run>>

\* key = k: k is the generator expression's own variable, unbound in links
NameErrorK ==
    /\ pc = "line400"
    /\ pc' = "NameError"
    /\ UNCHANGED <<md_files, disk, disk0, contents, dry_run, results, idx,
                   item, entry, wline, opens, passed, log, run>>

Next == ClassifyDoc \/ ReportBuckets \/ NameErrorK

\* the links command as written
Spec == Init /\ [][Next]_vars

----------------------------------------------------------------------------
(* write_corrected_url, called the way links calls it with k = "exact_match" *)

\* relative_path(md.filename.parent, matches[0].filename.parent)
\*     .joinpath(matches[0].filename.name)
new_url(files, md, matches) ==
    Append(relative_path(PathParent(files[md]), PathParent(files[matches[1]])),
           PathName(files[matches[1]]))

\* md.contents[line].replace(url["md"], str(new_url))
new_line(text, url, target) == str_replace(text, url.md, PathStr(target))

\* the body of `for defect, matches in problems` on the line list
apply_entry(files, md, lines, problem) ==
    LET line == problem[1][1]
        url  == problem[1][2]
    IN  [lines EXCEPT ![line + 1] =
            new_line(@, url, new_url(files, md, problem[2]))]

\* the item of results[k] the loop of links is at
CurMd == results.exact_match[item][1]
CurProblems == results.exact_match[item][2]

\* key = k, were k bound to "exact_match": if results[k]: (header)
BindK ==
    /\ pc = "line400"
    /\ IF results.exact_match # <<>>
       THEN /\ pc' = "item"
            /\ log' = Append(log, [kind |-> "display", key |-> "exact_match"])
       ELSE /\ pc' = "done"
            /\ log' = log
    /\ item' = 1
    /\ UNCHANGED <<md_files, disk, disk0, contents, dry_run, results, idx,
                   entry, wline, opens, passed, run>>

\* for item in results[k]: write_corrected_url(md, problems, ...)
CallWriter ==
    /\ pc = "item"
    /\ item <= Len(results.exact_match)
    /\ passed' = Append(passed, results.exact_match[item])
    /\ entry' = 1
    /\ pc' = "entry"
    /\ UNCHANGED <<md_files, disk, disk0, contents, dry_run, results, idx,
                   item, wline, opens, log, run>>

\* the iteration with the write-back indented into the loop: the file is
\* opened and written once per repaired link
ApplyEntryWriting ==
    /\ pc = "entry"
    /\ entry <= Len(CurProblems)
    /\ LET problem == CurProblems[entry]
           lines   == apply_entry(md_files, CurMd, contents[CurMd], problem)
       IN  /\ contents' = [contents EXCEPT ![CurMd] = lines]
           /\ disk' = IF dry_run THEN disk ELSE [disk EXCEPT ![CurMd] = lines]
           /\ log' = Append(log, [kind |-> "Replacing", md |-> CurMd,
                                  line |-> problem[1][1],
                                  old |-> problem[1][2].md,
                                  new |-> PathStr(new_url(md_files, CurMd, problem[2]))])
    /\ opens' = IF dry_run THEN opens ELSE [opens EXCEPT ![CurMd] = @ + 1]
    /\ entry' = entry + 1
    /\ pc' = IF entry < Len(CurProblems) THEN "entry"
             ELSE IF dry_run THEN "dryrun" ELSE "open"
    /\ UNCHANGED <<md_files, disk0, dry_run, results, idx, item, wline,
                   passed, run>>

\* one iteration of `for defect, matches in problems`
ApplyEntry ==
    /\ pc = "entry"
    /\ entry <= Len(CurProblems)
    /\ LET problem == CurProblems[entry]
       IN  /\ contents' = [contents EXCEPT ![CurMd] =
                              apply_entry(md_files, CurMd, @, problem)]
           /\ log' = Append(log, [kind |-> "Replacing", md |-> CurMd,
                                  line |-> problem[1][1],
                                  old |-> problem[1][2].md,
                                  new |-> PathStr(new_url(md_files, CurMd, problem[2]))])
    /\ entry' = entry + 1
    /\ pc' = IF entry < Len(CurProblems) THEN "entry"
             ELSE IF dry_run THEN "dryrun" ELSE "open"
    /\ UNCHANGED <<md_files, disk, disk0, dry_run, results, idx, item, wline,
                   opens, passed, run>>

\* if dry_run: log.info("------DRY-RUN------")
DryRunNote ==
    /\ pc = "dryrun"
    /\ log' = Append(log, [kind |-> "DRY-RUN", md |-> CurMd])
    /\ item' = item + 1
    /\ pc' = "item"
    /\ UNCHANGED <<md_files, disk, disk0, contents, dry_run, results, idx,
                   entry, wline, opens, passed, run>>

\* md.filename.open("w", encoding="utf-8") truncates the file
OpenFile ==
    /\ pc = "open"
    /\ disk' = [disk EXCEPT ![CurMd] = <<>>]
    /\ opens' = [opens EXCEPT ![CurMd] = @ + 1]
    /\ wline' = 1
    /\ pc' = "write"
    /\ UNCHANGED <<md_files, disk0, contents, dry_run, results, idx, item,
                   entry, passed, log, run>>

\* for line in md.contents: fo.write(line)
WriteLine ==
    /\ pc = "write"
    /\ wline <= Len(contents[CurMd])
    /\ disk' = [disk EXCEPT ![CurMd] = Append(@, contents[CurMd][wline])]
    /\ wline' = wline + 1
    /\ UNCHANGED <<md_files, disk0, contents, dry_run, results, idx, item,
                   entry, opens, passed, log, pc, run>>

\* log.info("Changes written..."), the file is closed, the call returns
CloseFile ==
    /\ pc = "write"
    /\ wline > Len(contents[CurMd])
    /\ log' = Append(log, [kind |-> "written", md |-> CurMd])
    /\ item' = item + 1
    /\ pc' = "item"
    /\ UNCHANGED <<md_files, disk, disk0, contents, dry_run, results, idx,
                   entry, wline, opens, passed, run>>

\* open() or fo.write() raises OSError; nothing in write_corrected_url or
\* links catches it
IOFault ==
    /\ pc \in {"open", "write"}
    /\ pc' = "OSError"
    /\ UNCHANGED <<md_files, disk, disk0, contents, dry_run, results, idx,
                   item, entry, wline, opens, passed, log, run>>

\* the loop over results[k] is over: if config["dry_run"]: "... files corrected!"
EndItems ==
    /\ pc = "item"
    /\ item > Len(results.exact_match)
    /\ log' = IF dry_run
              THEN Append(log, [kind |-> "corrected",
                                files |-> Len(results.exact_match)])
              ELSE log
    /\ pc' = "done"
    /\ UNCHANGED <<md_files, disk, disk0, contents, dry_run, results, idx,
                   item, entry, wline, opens, passed, run>>

\* the command is run again on the corpus as the last run left it
Rerun ==
    /\ pc = "done"
    /\ run < MaxRuns
    /\ run' = run + 1
    /\ disk0' = disk
    /\ contents' = disk
    /\ results' = EmptyResults
    /\ pc' = "classify"
    /\ idx' = 1
    /\ item' = 1
    /\ entry' = 1
    /\ wline' = 1
    /\ opens' = [d \in Docs |-> 0]
    /\ passed' = <<>>
    /\ log' = <<>>
    /\ UNCHANGED <<md_files, disk, dry_run>>

NextRepair ==
    \/ ClassifyDoc
    \/ ReportBuckets
    \/ BindK
    \/ CallWriter
    \/ ApplyEntry
    \/ DryRunNote
    \/ OpenFile
    \/ WriteLine
    \/ CloseFile
    \/ IOFault
    \/ EndItems
    \/ Rerun

\* the discovery, classification and repair of links with k = "exact_match"
SpecRepair == Init /\ [][NextRepair]_vars

----------------------------------------------------------------------------
(* What the claims speak of *)

\* the documents links has classified so far
Classified == 1..(idx - 1)

\* the broken links of document d as the run found it
BrokenOf(d) == find_broken_urls(md_files[d], disk0[d], md_files)

\* the documents whose file name is the base name of the target
Candidates(target) ==
    {c \in Docs : PathName(md_files[c]) = PathName(PathParts(target))}

\* every place <<key, q, e>> of the buckets: entry e of item q of results[key]
BucketPlaces ==
    UNION { UNION { {<<BucketKeys[b], q, e>> :
                        e \in 1..Len(results[BucketKeys[b]][q][2])} :
                    q \in 1..Len(results[BucketKeys[b]]) } :
            b \in 1..Len(BucketKeys) }

\* the places of the buckets that hold problem of document d
Places(d, problem) ==
    {pl \in BucketPlaces :
        /\ results[pl[1]][pl[2]][1] = d
        /\ results[pl[1]][pl[2]][2][pl[3]][1] = problem}

\* problem of document d is in bucket key, with the candidate list matches
Holds(key, d, problem, matches) ==
    \E pl \in Places(d, problem) :
        /\ pl[1] = key
        /\ results[key][pl[2]][2][pl[3]][2] = matches

\* problem of document d is in bucket key and in no other place
OnlyIn(key, d, problem) ==
    /\ Cardinality(Places(d, problem)) = 1
    /\ \A pl \in Places(d, problem) : pl[1] = key

\* the entries of document d in bucket key
EntriesOf(key, d) ==
    LET qs == {q \in 1..Len(results[key]) : results[key][q][1] = d}
    IN  IF qs = {} THEN <<>> ELSE results[key][CHOOSE q \in qs : TRUE][2]

\* C1: a broken link whose target base name names exactly one document of the
\* corpus is in exact_match with that document as its only candidate, and in
\* no other bucket.
C1_ExactOne ==
    \A d \in Classified :
        LET broken == BrokenOf(d)
        IN  \A q \in 1..Len(broken) :
                LET cands == Candidates(broken[q][2].md)
                IN  Cardinality(cands) = 1 =>
                        /\ \E c \in cands :
                              Holds("exact_match", d, broken[q], <<c>>)
                        /\ OnlyIn("exact_match", d, broken[q])

\* C1 witness: a broken link with a directory part in its target is in
\* exact_match
C1_Witness ==
    \E d \in Classified :
        LET broken == BrokenOf(d)
        IN  \E q \in 1..Len(broken) :
                /\ Cardinality(Candidates(broken[q][2].md)) = 1
                /\ Len(PathParts(broken[q][2].md)) > 1
                /\ \E pl \in Places(d, broken[q]) : pl[1] = "exact_match"

\* C3: every broken link of a classified document is at exactly one place of
\* the four buckets, and the buckets hold nothing else for that document.
C3_Partition ==
    \A d \in Classified :
        LET broken == BrokenOf(d)
        IN
        /\ \A q \in 1..Len(broken) : Cardinality(Places(d, broken[q])) = 1
        /\ Len(EntriesOf("no_matches", d)) + Len(EntriesOf("suggestions", d))
             + Len(EntriesOf("exact_match", d)) + Len(EntriesOf("exact_matches", d))
             = Len(broken)
        /\ \A b \in 1..Len(BucketKeys) :
              Cardinality({q \in 1..Len(results[BucketKeys[b]]) :
                              results[BucketKeys[b]][q][1] = d}) <= 1

\* C3 witness: a classified document with broken links in two buckets
C3_Witness ==
    \E d \in Classified :
        /\ Len(BrokenOf(d)) >= 2
        /\ EntriesOf("exact_match", d) # <<>>
        /\ EntriesOf("no_matches", d) # <<>>

\* C4: a broken link whose target base name is no key of the index is in
\* no_matches with no candidate when no key is within the 0.8 cutoff, and
\* otherwise in suggestions with the documents of every matched key, in the
\* matcher's order.
C4_FuzzyOrNone ==
    LET keys == {PathName(md_files[c]) : c \in Docs}
    IN  \A d \in Classified :
            LET broken == BrokenOf(d)
            IN  \A q \in 1..Len(broken) :
                    LET name  == PathName(PathParts(broken[q][2].md))
                        close == get_close_matches(name, keys, CloseMatchesN,
                                                   CutoffNum, CutoffDen)
                    IN  name \notin keys =>
                            IF \A k \in keys :
                                  ~RatioAtLeast(k, name, CutoffNum, CutoffDen)
                            THEN /\ Holds("no_matches", d, broken[q], <<>>)
                                 /\ OnlyIn("no_matches", d, broken[q])
                            ELSE /\ Holds("suggestions", d, broken[q],
                                          Flatten(close, document_lookup(md_files)))
                                 /\ OnlyIn("suggestions", d, broken[q])

\* C4 witness: one document has a link with two suggested keys, the closer
\* key's document discovered last, and a link with no match at all
C4_Witness ==
    \E d \in Classified :
        /\ EntriesOf("no_matches", d) # <<>>
        /\ \E e \in 1..Len(EntriesOf("suggestions", d)) :
              LET m == EntriesOf("suggestions", d)[e][2]
              IN  Len(m) = 2 /\ m[1] > m[2]

----------------------------------------------------------------------------
(* What the claims about the repair speak of *)

\* the run is over: links returned, or an exception ended it
Ended == pc \in {"done", "NameError", "OSError"}

\* document d was handed to write_corrected_url
Passed(d) == \E p \in 1..Len(passed) : passed[p][1] = d

\* every exact_match entry of document d has been applied to md.contents
AllApplied(d) ==
    \E q \in 1..Len(results.exact_match) :
        /\ results.exact_match[q][1] = d
        /\ \/ q < item
           \/ q = item /\ entry > Len(results.exact_match[q][2])

\* the lines of document d with every exact_match entry applied
RECURSIVE ApplyAll(_, _, _)
ApplyAll(d, lines, problems) ==
    IF problems = <<>> THEN lines
    ELSE ApplyAll(d, apply_entry(md_files, d, lines, Head(problems)),
                  Tail(problems))

RepairedLines(d) == ApplyAll(d, disk0[d], EntriesOf("exact_match", d))

\* the lines with, for every problem, the characters of its md_span replaced
\* by the new path and nothing else touched (last problem first, so that the
\* spans of the earlier ones stay where they are)
RECURSIVE SpanRepair(_, _, _)
SpanRepair(d, lines, problems) ==
    IF problems = <<>> THEN lines
    ELSE LET pr   == problems[Len(problems)]
             n    == pr[1][1] + 1
             span == pr[1][2].md_span
             new  == SubSeq(lines[n], 1, span[1])
                        \o PathStr(new_url(md_files, d, pr[2]))
                        \o SubSeq(lines[n], span[2] + 1, Len(lines[n]))
         IN  SpanRepair(d, [lines EXCEPT ![n] = new],
                        SubSeq(problems, 1, Len(problems) - 1))

\* which link of its line (first, second, ...) the url is
Ordinal(text, url) ==
    CHOOSE q \in 1..Len(FindLinks(text, 1)) :
        FindLinks(text, 1)[q].md_span = url.md_span

\* the link occurrence of problem, looked up in lines, is missing or broken
StillBroken(d, problem, lines) ==
    LET n == problem[1] + 1
        q == Ordinal(disk0[d][n], problem[2])
    IN  \/ n > Len(lines)
        \/ q > Len(FindLinks(lines[n], 1))
        \/ ~Exists(LinkedFile(md_files[d], FindLinks(lines[n], 1)[q].md), md_files)

\* the "Replacing" records of the log
Replacings == {i \in 1..Len(log) : log[i].kind = "Replacing"}

\* the broken links of the corpus with exactly one candidate
Repairable ==
    UNION { LET broken == BrokenOf(d)
            IN  {<<d, q>> : q \in {x \in 1..Len(broken) :
                    Cardinality(Candidates(broken[x][2].md)) = 1}} : d \in Docs }

\* the lines of document d with a broken link of more than one candidate and
\* no broken link of exactly one
AmbiguousLines(d) ==
    LET broken == BrokenOf(d)
        count  == [q \in 1..Len(broken) |->
                      Cardinality(Candidates(broken[q][2].md))]
    IN  {n \in 1..Len(disk0[d]) :
            /\ \E q \in 1..Len(broken) : broken[q][1] + 1 = n /\ count[q] > 1
            /\ \A q \in 1..Len(broken) : broken[q][1] + 1 = n => count[q] # 1}

\* C2: a broken link whose target base name names N > 1 documents is in
\* exact_matches with exactly those N candidates and in no other bucket; no
\* entry handed to write_corrected_url has more than one candidate; a line
\* whose broken links are all ambiguous is never changed in memory, nor on
\* disk by a finished run.
C2_ExactMany ==
    /\ \A d \in Classified :
          LET broken == BrokenOf(d)
          IN  \A q \in 1..Len(broken) :
                  LET cands == Candidates(broken[q][2].md)
                  IN  Cardinality(cands) > 1 =>
                          /\ OnlyIn("exact_matches", d, broken[q])
                          /\ \A pl \in Places(d, broken[q]) :
                                LET m == results[pl[1]][pl[2]][2][pl[3]][2]
                                IN  /\ Len(m) = Cardinality(cands)
                                    /\ {m[i] : i \in 1..Len(m)} = cands
    /\ \A p \in 1..Len(passed) : \A e \in 1..Len(passed[p][2]) :
          /\ Len(passed[p][2][e][2]) = 1
          /\ Cardinality(Candidates(passed[p][2][e][1][2].md)) = 1
    /\ \A d \in Docs : \A n \in AmbiguousLines(d) :
          /\ contents[d][n] = disk0[d][n]
          /\ pc = "done" => disk[d][n] = disk0[d][n]

\* C2 witness: an apply run is over that rewrote the file of a document which
\* also holds an ambiguous link
C2_Witness ==
    /\ pc = "done"
    /\ ~dry_run
    /\ \E d \in Docs :
          /\ opens[d] = 1
          /\ disk[d] # disk0[d]
          /\ EntriesOf("exact_matches", d) # <<>>

\* C5: a dry run of links over a corpus with N repairable links ends with N
\* intended changes reported and every file as it was.
C5_DryRunReports ==
    (dry_run /\ Ended) =>
        /\ Cardinality(Replacings) = Cardinality(Repairable)
        /\ disk = disk0

\* the part of C5 that is about write_corrected_url alone: under dry_run no
\* file is opened or written
C5_WriterLeavesFiles ==
    dry_run => /\ disk = disk0
               /\ \A d \in Docs : opens[d] = 0

\* C6: once an apply run has repaired an exact_match entry, that link
\* occurrence is no longer broken, and a second run changes no line.
C6_Convergence ==
    /\ (pc = "done" /\ ~dry_run) =>
          \A d \in Docs : \A e \in 1..Len(EntriesOf("exact_match", d)) :
              ~StillBroken(d, EntriesOf("exact_match", d)[e][1], disk[d])
    /\ (run > 1 /\ ~dry_run) =>
          /\ contents = disk0
          /\ pc = "done" => disk = disk0

\* C7: once write_corrected_url has applied the entries of a document, each
\* rewritten line differs from the original only in the characters of the
\* repaired links' paths, and every other line is the original.
C7_OnlyPathChanges ==
    \A p \in 1..Len(passed) :
        (p < Len(passed) \/ pc # "entry") =>
            contents[passed[p][1]]
                = SpanRepair(passed[p][1], disk0[passed[p][1]], passed[p][2])

\* C8: when an apply run ends, by returning or by an I/O error, every
\* document with exact_match entries is on disk either as it was or fully
\* repaired, and fully repaired unless it is the one whose write failed.
C8_FaultIsolated ==
    (~dry_run /\ pc \in {"done", "OSError"}) =>
        \A d \in Docs :
            EntriesOf("exact_match", d) # <<>> =>
                /\ disk[d] \in {disk0[d], RepairedLines(d)}
                /\ (pc = "done" \/ d # CurMd) => disk[d] = RepairedLines(d)

\* C9: when an apply run of links ends, every document with an exact_match
\* entry was handed to write_corrected_url, and each such link reads the
\* relative path to its one candidate and resolves.
C9_LinksRepairs ==
    (~dry_run /\ Ended) =>
        \A d \in Docs : \A e \in 1..Len(EntriesOf("exact_match", d)) :
            LET en == EntriesOf("exact_match", d)[e]
                n  == en[1][1] + 1
            IN  /\ Passed(d)
                /\ ~StillBroken(d, en[1], disk[d])
                /\ FindLinks(disk[d][n], 1)[Ordinal(disk0[d][n], en[1][2])].md
                      = PathStr(new_url(md_files, d, en[2]))

\* C10: a file is opened for writing at most once per run, never under
\* dry_run and only after every exact_match entry of its document has been
\* applied in memory; a finished apply run has written each such document
\* once, from the staged lines; a document without exact_match entries has
\* its lines and its file untouched.
C10_WriteOnce ==
    \A d \in Docs :
        /\ opens[d] <= 1
        /\ opens[d] = 1 => (~dry_run /\ AllApplied(d))
        /\ disk[d] # disk0[d] => opens[d] = 1
        /\ contents[d] # disk0[d] => Passed(d)
        /\ EntriesOf("exact_match", d) = <<>> =>
              /\ contents[d] = disk0[d]
              /\ disk[d] = disk0[d]
              /\ opens[d] = 0
        /\ (pc = "done" /\ ~dry_run /\ EntriesOf("exact_match", d) # <<>>) =>
              /\ opens[d] = 1
              /\ disk[d] = contents[d]
              /\ Cardinality({i \in 1..Len(log) :
                     log[i].kind = "written" /\ log[i].md = d}) = 1

\* C10 witness: an apply run is over in which a document with two repaired
\* links was written once and a document with a link but no exact_match
\* entry was left alone
C10_Witness ==
    /\ pc = "done"
    /\ ~dry_run
    /\ \E d \in Docs :
          /\ Len(EntriesOf("exact_match", d)) >= 2
          /\ opens[d] = 1
          /\ disk[d] # disk0[d]
    /\ \E d \in Docs :
          /\ EntriesOf("exact_match", d) = <<>>
          /\ relative_links(disk0[d]) # <<>>
          /\ opens[d] = 0

====
